---- MODULE Spec2Model ----
(***************************************************************************)
(* The connection harness of node/gnet (conn.go): one Conn of a Pool with  *)
(* its dial, read and write goroutines, the thread that creates or accepts *)
(* it, and the application that uses it.  Each goroutine is a process with *)
(* a program counter; every select of the code is one step per case.       *)
(*                                                                         *)
(* Channels.  dialtr, dialrl, dialwl, readd and writed are unbuffered: a   *)
(* communication is one step taken by sender and receiver together.  In    *)
(* every such communication the side that waits is a select that also has  *)
(* the case <-c.closed.  close(c.closed) wakes every goroutine parked in   *)
(* such a select on the closed case, and a select entered afterwards finds *)
(* the closed case ready and never parks, so no communication on the five  *)
(* unbuffered channels completes once c.closed is closed.  readq and       *)
(* writeq are buffered and stay usable.                                    *)
(***************************************************************************)
EXTENDS Integers, Sequences, FiniteSets, TLC

\* ---------------------------------------------------------------- bounds
MaxStreams == 2      \* streams the connection obtains (accepted or dialed)
ReadQueueLen == 1    \* Config.ReadQueueLen
WriteQueueLen == 1   \* Config.WriteQueueLen
MaxMessageSize == 1  \* Config.MaxMessageSize
MaxDials == 3        \* dial attempts that are counted
PrefixBits == 8      \* bits of the length prefix (uint32 in the code, scaled)
NSeq == 3            \* distinct payload contents where contents are told apart
NAddrs == 2          \* remote addresses the pool meets
MaxConns == 4        \* Conn objects the pool creates
MaxAccepts == 4      \* streams the listener accepts
NFeeds == 2          \* feeds of the Container
NHeads == 2          \* heads of every feed
MaxSeq == 2          \* greatest seq of a Root
MaxKeep == 2         \* greatest keepLast
ByteBase == 4        \* values of a byte (256 in the code, scaled)

\* 100 * time.Millisecond, in milliseconds
DefaultRedialTimeout == 100

\* payload lengths the application sends
Lens == {MaxMessageSize, MaxMessageSize + 1}

\* the smallest length prefix that int() makes negative where int is as
\* wide as the prefix (2^31 in the code)
Huge == 2 ^ (PrefixBits - 1)

\* length prefixes the peer sends
FrameLens == Lens \cup {Huge}

\* The configurations that are explored.  WriteBufferSize counts the calls
\* of Write that the buffer takes before it has to be written out; IntSize
\* is the width of int on the platform.
\*  - unlimited dials, backoff from 0 up to twice the default, an OnDial
\*    callback, a buffered writer;
\*  - two dials, no backoff, no callback, an unbuffered writer;
\*  - one dial, backoff capped below the default, no message size limit,
\*    32-bit int;
\*  - one dial, RedialTimeout above MaxRedialTimeout, no message size limit;
\*  - two dials, RedialTimeout positive and below MaxRedialTimeout, which is
\*    below four times RedialTimeout, no message size limit.
Configs ==
    { [DialsLimit |-> 0, RedialTimeout |-> 0, MaxRedialTimeout |-> 2 * DefaultRedialTimeout,
       OnDial |-> TRUE, WriteBufferSize |-> 1, MaxMessageSize |-> MaxMessageSize,
       IntSize |-> 64],
      [DialsLimit |-> 2, RedialTimeout |-> 0, MaxRedialTimeout |-> 0,
       OnDial |-> FALSE, WriteBufferSize |-> 0, MaxMessageSize |-> MaxMessageSize,
       IntSize |-> 64],
      [DialsLimit |-> 1, RedialTimeout |-> 0, MaxRedialTimeout |-> DefaultRedialTimeout \div 2,
       OnDial |-> FALSE, WriteBufferSize |-> 0, MaxMessageSize |-> 0,
       IntSize |-> 32],
      [DialsLimit |-> 1, RedialTimeout |-> 3 * DefaultRedialTimeout,
       MaxRedialTimeout |-> 2 * DefaultRedialTimeout,
       OnDial |-> FALSE, WriteBufferSize |-> 0, MaxMessageSize |-> 0,
       IntSize |-> 64],
      [DialsLimit |-> 2, RedialTimeout |-> DefaultRedialTimeout \div 2,
       MaxRedialTimeout |-> (3 * DefaultRedialTimeout) \div 2,
       OnDial |-> FALSE, WriteBufferSize |-> 0, MaxMessageSize |-> 0,
       IntSize |-> 64] }

Streams == 1 .. MaxStreams
ADDR == "addr"

VARIABLES
    incoming,   \* Conn.incoming
    conf,       \* Pool.conf, immutable
    state,      \* Conn.state
    conn,       \* Conn.conn: 0 is nil, otherwise a stream
    cmx,        \* Conn.cmx: "free" or the process holding it
    closed,     \* Conn.closed is closed
    closeo,     \* Conn.closeo: "fresh", "running", "done"
    cstep,      \* position inside the function run by closeo
    conns,      \* Pool.conns: registered addresses
    sclosed,    \* streams on which net.Conn.Close() was called
    nstreams,   \* streams obtained so far
    pc,         \* position of every process
    lconn,      \* local variable conn of every process
    diallm,     \* dial: remaining dials (-1: unlimited)
    tm,         \* dial: redial timeout
    derr,       \* dial: local variable err
    ndials,     \* calls of c.dialing(), counted up to MaxDials
    readq,      \* Conn.readq
    writeq,     \* Conn.writeq
    rl,         \* read: local variable l, the length of the frame being read
    rbody,      \* read: local variable body once it is read completely
    ndec,       \* content of the next frame that is decoded completely
    wbody,      \* write: local variable body, the payload being written
    unsent,     \* payloads taken from writeq that are not wholly on the stream
    nwrite,     \* content of the next payload written if none is skipped
    nsend,      \* content of the next payload the application sends
    nrecv,      \* content of the next payload received if none is missing
    nseq,       \* number of distinct contents: k-th payload has content k % nseq
    wbuf,       \* write: data held by the bufio.Writer of the write loop
    trig,       \* per stream: calls of triggerDialing by its read/write loops
    nClosed, nCloseConnection, nDelete, nOnClose, \* runs of each step of Close
    fpc,        \* OnDialFilter: "off", "call" or "ret"
    ferr,       \* OnDialFilter: the argument err
    freject,    \* OnDialFilter: the result reject
    pconns,     \* Pool.conns as a map: address -> Conn (0: no entry)
    cns,        \* the Conn objects the pool created, in order of creation
    awaitAdd,   \* goroutines added to Pool.await
    nacc,       \* streams the listener accepted
    aaddr,      \* acceptConnection: c.RemoteAddr().String()
    aret,       \* acceptConnection: the results cn and err
    roots,      \* Container: the seqs of the Roots of every head
    roots0,     \* the Roots when RemoveRootObjects was called
    keepLast,   \* RemoveRootObjects: the argument keepLast
    rpc,        \* RemoveRootObjects: "off" or the position in it
    pk,         \* RemoveRootObjects: the feed of the feed loop (0: none yet)
    nonce,      \* RemoveRootObjects: the head of HeadLoop (0: none yet)
    goDown,     \* RemoveRootObjects: local variable goDown
    rerr,       \* RemoveRootObjects: the result err
    uarg,       \* encodeUint32: the argument u
    ub,         \* encodeUint32: the result ub, decodeUint32: the argument
    udec,       \* decodeUint32: the result
    upc         \* encodeUint32 / decodeUint32: "off" or the position

vars == << incoming, conf, state, conn, cmx, closed, closeo, cstep, conns, sclosed,
           nstreams, pc, lconn, diallm, tm, derr, ndials, readq, writeq, rl, rbody, ndec, wbody, unsent, nwrite,
           nsend, nrecv, nseq, wbuf, trig,
           nClosed, nCloseConnection, nDelete, nOnClose, fpc, ferr, freject,
           pconns, cns, awaitAdd, nacc, aaddr, aret,
           roots, roots0, keepLast, rpc, pk, nonce, goDown, rerr,
           uarg, ub, udec, upc >>

Procs == {"main", "dial", "read", "write", "app"}

Goto(p, l) == pc' = [pc EXCEPT ![p] = l]
Goto2(p, l, q, m) == pc' = [pc EXCEPT ![p] = l, ![q] = m]

\* a payload: its content and its length; NoBody is a nil slice
NoBody == [n |-> 0, len |-> 0]

\* ---------------------------------------------------------- construction
\* createConnection / acceptConnection up to the start of the goroutines.
\* The zero value of ConnState is ConnStateConnected.
InitConn ==
    /\ incoming \in BOOLEAN
    /\ conf \in (IF incoming THEN {c \in Configs : c.WriteBufferSize > 0} ELSE Configs)
    /\ state = "Connected"
    /\ conn = 0
    /\ cmx = "free"
    /\ closed = FALSE
    /\ closeo = "fresh"
    /\ cstep = "idle"
    /\ conns = {ADDR}
    /\ sclosed = {}
    /\ nstreams = IF incoming THEN 1 ELSE 0
    /\ pc = [p \in Procs |->
               CASE p = "main" -> IF incoming THEN "m_upd" ELSE "m_trig"
                 [] p = "dial" -> IF incoming THEN "none" ELSE "d_trig"
                 [] p = "read" -> "r_dial"
                 [] p = "write" -> "w_dial"
                 [] OTHER -> "a_idle"]
    /\ lconn = [p \in Procs |-> IF p = "main" /\ incoming THEN 1 ELSE 0]
    /\ diallm = IF conf.DialsLimit = 0 THEN -1 ELSE conf.DialsLimit
    /\ tm = 0
    /\ derr = "nil"
    /\ ndials = 0
    /\ readq = << >>
    /\ writeq = << >>
    /\ rl = 0
    /\ rbody = NoBody
    /\ ndec = 0
    /\ wbody = NoBody
    /\ unsent = 0
    /\ nwrite = 0
    /\ nsend = 0
    /\ nrecv = 0
    /\ wbuf = 0
    /\ trig = [s \in Streams |-> 0]
    /\ nClosed = 0
    /\ nCloseConnection = 0
    /\ nDelete = 0
    /\ nOnClose = 0


fvars == << fpc, ferr, freject >>
avars == << pconns, cns, awaitAdd, nacc, aaddr, aret >>
rvars == << roots, roots0, keepLast, rpc, pk, nonce, goDown, rerr >>
uvars == << uarg, ub, udec, upc >>
cfg == << incoming, conf, nseq, fvars, avars, rvars, uvars >>
cls == << closed, closeo, cstep, conns, nClosed, nCloseConnection, nDelete, nOnClose >>
dlv == << diallm, tm, derr, ndials >>
rdv == << rl, rbody, ndec >>
wrv == << wbody, unsent, nwrite >>
appv == << nsend, nrecv >>
qs == << readq, writeq, rdv, wrv, appv >>
misc == << nstreams, trig, wbuf >>

\* everything but pc
allButPc == << cfg, state, conn, cmx, cls, sclosed, lconn, dlv, qs, misc >>

\* the connection
conv == << incoming, conf, nseq, state, conn, cmx, cls, sclosed, pc, lconn, dlv, qs, misc >>

\* ----------------------------------------------------------------- Close
\* The places where a process calls c.Close(): the deferred calls of dial,
\* read and write, the calls of triggerDialingRead/Write on an incoming
\* connection, and the application; CloseRet is where the call returns to.
ClosePC == {"d_defer", "r_defer", "w_defer", "r_close", "w_close", "a_close"}

CloseRet(l) ==
    CASE l = "r_close" -> "r_dial"
      [] l = "w_close" -> "w_dial"
      [] l = "a_close" -> "a_idle"
      [] OTHER -> "done"

\* a guard that lets every caller run the function
OnceDoAgain(p) == closeo # "running"

\* closeo.Do runs its function for the first caller only
OnceDo(p) == closeo = "fresh"

\* c.closeo.Do(func() { close(c.closed) ...
CloseStart(p) ==
    /\ pc[p] \in ClosePC
    /\ OnceDo(p)
    /\ closeo' = "running"
    /\ closed' = TRUE
    /\ nClosed' = nClosed + 1
    /\ cstep' = "closeConnection"
    /\ UNCHANGED << cfg, state, conn, cmx, conns, nCloseConnection, nDelete, nOnClose,
                    sclosed, pc, lconn, dlv, qs, misc >>

\* closeConnection that sets the state and leaves the stream open
closeConnectionKeepsStream ==
    /\ cstep = "closeConnection"
    /\ cmx = "free"
    /\ state' = IF conn # 0 THEN "Closed" ELSE state
    /\ nCloseConnection' = nCloseConnection + 1
    /\ cstep' = "delete"
    /\ UNCHANGED << cfg, conn, cmx, closed, closeo, conns, nClosed, nDelete, nOnClose,
                    sclosed, pc, lconn, dlv, qs, misc >>

\* c.closeConnection(): under c.cmx, close c.conn and set the state if c.conn != nil
closeConnection ==
    /\ cstep = "closeConnection"
    /\ cmx = "free"
    /\ IF conn # 0
         THEN /\ sclosed' = sclosed \cup {conn}
              /\ state' = "Closed"
         ELSE UNCHANGED << sclosed, state >>
    /\ nCloseConnection' = nCloseConnection + 1
    /\ cstep' = "delete"
    /\ UNCHANGED << cfg, conn, cmx, closed, closeo, conns, nClosed, nDelete, nOnClose,
                    pc, lconn, dlv, qs, misc >>

\* c.p.delete(c.Address())
PoolDelete ==
    /\ cstep = "delete"
    /\ conns' = conns \ {ADDR}
    /\ nDelete' = nDelete + 1
    /\ cstep' = "OnCloseConnection"
    /\ UNCHANGED << cfg, state, conn, cmx, closed, closeo, nClosed, nCloseConnection,
                    nOnClose, sclosed, pc, lconn, dlv, qs, misc >>

\* dh(c), then the function of closeo returns
OnCloseConnection ==
    /\ cstep = "OnCloseConnection"
    /\ nOnClose' = nOnClose + 1
    /\ cstep' = "idle"
    /\ closeo' = "done"
    /\ UNCHANGED << cfg, state, conn, cmx, closed, conns, nClosed, nCloseConnection,
                    nDelete, sclosed, pc, lconn, dlv, qs, misc >>

\* Close() returns to its caller once the function of closeo has returned
CloseReturn(p) ==
    /\ pc[p] \in ClosePC
    /\ closeo = "done"
    /\ Goto(p, CloseRet(pc[p]))
    /\ UNCHANGED allButPc

\* the application calls c.Close() on the Conn that Dial or the accept gave
\* it, any number of times
AppClose ==
    /\ pc["app"] = "a_idle"
    /\ pc["main"] = "done"
    /\ Goto("app", "a_close")
    /\ UNCHANGED allButPc

\* -------------------------------------------------------- triggerDialing
TrigPC == {"m_trig", "r_trig", "w_trig"}
SendPC == {"m_send", "r_send", "w_send"}

TrigNext(l) ==
    CASE l = "m_trig" -> "m_send"
      [] l = "r_trig" -> "r_send"
      [] OTHER -> "w_send"

\* where triggerDialing returns to: createConnection returns, the read and
\* the write loop continue their DialLoop
SendRet(l) ==
    CASE l = "m_send" -> "done"
      [] l = "r_send" -> "r_dial"
      [] OTHER -> "w_dial"

\* c.cmx.Lock(); c.state = ConnStateDialing
triggerDialing(p) ==
    /\ pc[p] \in TrigPC
    /\ cmx = "free"
    /\ cmx' = p
    /\ state' = "Dialing"
    /\ trig' = IF p = "main" THEN trig ELSE [trig EXCEPT ![lconn[p]] = @ + 1]
    /\ Goto(p, TrigNext(pc[p]))
    /\ UNCHANGED << cfg, conn, cls, sclosed, lconn, dlv, qs, nstreams, wbuf >>

\* a trigger that always carries nil
TriggerErrNil(p) == "nil"

\* the error passed to triggerDialing: nil by createConnection, the I/O
\* error by triggerDialingRead and triggerDialingWrite
TriggerErr(p) == IF p = "main" THEN "nil" ELSE "io"

\* a trigger that leaves the timeout as the last cycle left it
TriggerTimeoutKept == tm

\* tm = c.p.conf.RedialTimeout // set/reset
TriggerTimeout == conf.RedialTimeout

\* select { case c.dialtr <- err: } met by dial's case err = <-c.dialtr;
\* tm = c.p.conf.RedialTimeout
DialTrigger(p) ==
    /\ pc[p] \in SendPC
    /\ pc["dial"] = "d_trig"
    /\ ~closed
    /\ cmx' = "free"
    /\ derr' = TriggerErr(p)
    /\ tm' = TriggerTimeout
    /\ Goto2(p, SendRet(pc[p]), "dial", "d_lim")
    /\ UNCHANGED << cfg, state, conn, cls, sclosed, lconn, diallm, ndials, qs, misc >>

\* select { case <-c.closed: } in triggerDialing
triggerDialingClosed(p) ==
    /\ pc[p] \in SendPC
    /\ closed
    /\ cmx' = "free"
    /\ Goto(p, SendRet(pc[p]))
    /\ UNCHANGED << cfg, state, conn, cls, sclosed, lconn, dlv, qs, misc >>

\* ------------------------------------------------------------------ dial
\* TriggerLoop: select { case <-c.closed: return }
DialTriggerClosed ==
    /\ pc["dial"] = "d_trig"
    /\ closed
    /\ Goto("dial", "d_defer")
    /\ UNCHANGED allButPc

\* a counter that is not decremented
DialsLeftKept(d) == d

\* diallm--  (a negative counter stays negative for 2^63 dials and is kept
\* at -1)
DialsLeft(d) == IF d < 0 THEN d ELSE d - 1

\* if diallm == 0 { return }; diallm--; if callback := c.p.conf.OnDial;
\* callback != nil
DialLimit ==
    /\ pc["dial"] = "d_lim"
    /\ IF diallm = 0
         THEN /\ Goto("dial", "d_defer")
              /\ UNCHANGED diallm
         ELSE /\ diallm' = DialsLeft(diallm)
              /\ Goto("dial", IF conf.OnDial THEN "d_ondial" ELSE "d_dialing")
    /\ UNCHANGED << cfg, state, conn, cmx, cls, sclosed, lconn, tm, derr, ndials, qs, misc >>

\* if err = callback(c, err); err != nil { return }
DialOnDial ==
    /\ pc["dial"] = "d_ondial"
    /\ \E reject \in BOOLEAN :
         /\ derr' = IF reject THEN "policy" ELSE "nil"
         /\ Goto("dial", IF reject THEN "d_defer" ELSE "d_dialing")
    /\ UNCHANGED << cfg, state, conn, cmx, cls, sclosed, lconn, diallm, tm, ndials, qs, misc >>

\* a backoff that starts at the default whatever the cap
BackoffUncapped(t, max) ==
    IF max > t
      THEN IF t = 0 THEN DefaultRedialTimeout ELSE (IF t * 2 > max THEN max ELSE t * 2)
      ELSE t

\* a backoff that sleeps the initial timeout as it is
BackoffKeepsInitial(t, max) ==
    IF max > t
      THEN LET d == IF t = 0 THEN DefaultRedialTimeout
                    ELSE IF t = conf.RedialTimeout THEN t ELSE t * 2
           IN  IF d > max THEN max ELSE d
      ELSE t

\* the redial timeout after a failed dial
Backoff(t, max) ==
    IF max > t
      THEN LET d == IF t = 0 THEN DefaultRedialTimeout ELSE t * 2
           IN  IF d > max THEN max ELSE d
      ELSE t

\* one more call of c.dialing()
Dialed == IF ndials < MaxDials THEN ndials + 1 ELSE ndials

\* conn, err = c.dialing() with err == nil
DialingOk ==
    /\ pc["dial"] = "d_dialing"
    /\ nstreams < MaxStreams
    /\ nstreams' = nstreams + 1
    /\ lconn' = [lconn EXCEPT !["dial"] = nstreams + 1]
    /\ derr' = "nil"
    /\ ndials' = Dialed
    /\ Goto("dial", "d_upd")
    /\ UNCHANGED << cfg, state, conn, cmx, cls, sclosed, diallm, tm, qs, trig, wbuf >>

\* conn, err = c.dialing() with err != nil: conn is nil; grow tm; with
\* tm > 0 sleep, otherwise if c.isClosed() { return }; continue DialLoop
DialingFail ==
    /\ pc["dial"] = "d_dialing"
    /\ lconn' = [lconn EXCEPT !["dial"] = 0]
    /\ derr' = "dial"
    /\ ndials' = Dialed
    /\ tm' = Backoff(tm, conf.MaxRedialTimeout)
    /\ Goto("dial", IF tm' > 0 THEN "d_sleep" ELSE IF closed THEN "d_defer" ELSE "d_lim")
    /\ UNCHANGED << cfg, state, conn, cmx, cls, sclosed, diallm, qs, misc >>

\* select { case <-time.After(tm): continue DialLoop }
DialSleep ==
    /\ pc["dial"] = "d_sleep"
    /\ Goto("dial", "d_lim")
    /\ UNCHANGED allButPc

\* select { case <-c.closed: return } during the sleep
DialSleepClosed ==
    /\ pc["dial"] = "d_sleep"
    /\ closed
    /\ Goto("dial", "d_defer")
    /\ UNCHANGED allButPc

\* ------------------------------------------- triggerReadWrite (handoff)
\* run by dial after a successful dial and by acceptConnection ("main")
UpdPC == {"d_upd", "m_upd"}
HandPC == {"d_hand", "m_hand"}
HandRPC == {"d_hand_r", "m_hand_r"}
HandWPC == {"d_hand_w", "m_hand_w"}

\* where triggerReadWrite returns to: dial continues its TriggerLoop,
\* acceptConnection returns
HandRet(p) == IF p = "dial" THEN "d_trig" ELSE "done"

\* c.cmx.Lock(); c.conn = conn; c.state = ConnStateConnected
updateConnection(p) ==
    /\ pc[p] \in UpdPC
    /\ cmx = "free"
    /\ conn' = lconn[p]
    /\ state' = "Connected"
    /\ Goto(p, IF p = "dial" THEN "d_hand" ELSE "m_hand")
    /\ UNCHANGED << cfg, cmx, cls, sclosed, lconn, dlv, qs, misc >>

\* a handoff that returns after the send on dialrl
AfterSendReadAbandon(p) == HandRet(p)

\* the pc of p after it sent on dialrl: the nested select sends on dialwl

AfterSendRead(p) ==
    IF pc[p] \in HandPC THEN (IF p = "dial" THEN "d_hand_w" ELSE "m_hand_w") ELSE HandRet(p)

\* a handoff that returns after the send on dialwl
AfterSendWriteAbandon(p) == HandRet(p)

\* the pc of p after it sent on dialwl
AfterSendWrite(p) ==
    IF pc[p] \in HandPC THEN (IF p = "dial" THEN "d_hand_r" ELSE "m_hand_r") ELSE HandRet(p)

\* case c.dialrl <- conn met by read's case conn = <-c.dialrl
HandRead(p) ==
    /\ pc[p] \in HandPC \cup HandRPC
    /\ pc["read"] = "r_dial"
    /\ ~closed
    /\ lconn' = [lconn EXCEPT !["read"] = lconn[p]]
    /\ Goto2(p, AfterSendRead(p), "read", "r_head")
    /\ UNCHANGED << cfg, state, conn, cmx, cls, sclosed, dlv, qs, misc >>

\* case c.dialwl <- conn met by write's case conn = <-c.dialwl
HandWrite(p) ==
    /\ pc[p] \in HandPC \cup HandWPC
    /\ pc["write"] = "w_dial"
    /\ ~closed
    /\ lconn' = [lconn EXCEPT !["write"] = lconn[p]]
    /\ wbuf' = 0
    /\ Goto2(p, AfterSendWrite(p), "write", "w_loop")
    /\ UNCHANGED << cfg, state, conn, cmx, cls, sclosed, dlv, qs, nstreams, trig >>

\* case <-c.closed: return, in any of the three selects
HandClosed(p) ==
    /\ pc[p] \in HandPC \cup HandRPC \cup HandWPC
    /\ closed
    /\ Goto(p, HandRet(p))
    /\ UNCHANGED allButPc

\* ------------------------------------------------------------------ read
Open(p) == lconn[p] \notin sclosed

\* DialLoop: select { case <-c.closed: return }
ReadDialClosed ==
    /\ pc["read"] = "r_dial"
    /\ closed
    /\ Goto("read", "r_defer")
    /\ UNCHANGED allButPc

\* after a failed io.ReadFull: if c.isClosed() { return };
\* c.triggerDialingRead(err, conn)
ReadErr ==
    /\ Goto("read", IF closed THEN "r_defer" ELSE "r_tdr")
    /\ rl' = 0
    /\ UNCHANGED << cfg, state, conn, cmx, cls, sclosed, lconn, dlv, readq, writeq, rbody, ndec,
                    wrv, appv, misc >>

\* l = int(ln) for the uint32 ln
Widen(ln) == IF conf.IntSize = 32 /\ ln >= Huge THEN ln - 2 * Huge ELSE ln

\* a read length check that also refuses a frame of MaxMessageSize bytes
ReadTooLongStrict(l) == conf.MaxMessageSize > 0 /\ l >= conf.MaxMessageSize

\* if c.p.conf.MaxMessageSize > 0 && l > c.p.conf.MaxMessageSize
ReadTooLong(l) == conf.MaxMessageSize > 0 /\ l > conf.MaxMessageSize

\* io.ReadFull(r, head) succeeds with length prefix ln; l = int(ln); the
\* length checks, which return with l still set
ReadHead ==
    /\ pc["read"] = "r_head"
    /\ Open("read")
    /\ \E ln \in FrameLens :
         /\ rl' = Widen(ln)
         /\ Goto("read", IF rl' < 0 \/ ReadTooLong(rl') THEN "r_defer" ELSE "r_body")
    /\ UNCHANGED << cfg, state, conn, cmx, cls, sclosed, lconn, dlv, readq, writeq, rbody, ndec,
                    wrv, appv, misc >>

\* io.ReadFull(r, body) succeeds: the next frame is decoded
ReadBody ==
    /\ pc["read"] = "r_body"
    /\ Open("read")
    /\ rbody' = [n |-> ndec, len |-> rl]
    /\ ndec' = (ndec + 1) % nseq
    /\ Goto("read", "r_push")
    /\ UNCHANGED << cfg, state, conn, cmx, cls, sclosed, lconn, dlv, readq, writeq, rl,
                    wrv, appv, misc >>

\* a read of the open stream fails: short read, timeout, reset by the peer
ReadFault ==
    /\ pc["read"] \in {"r_head", "r_body"}
    /\ Open("read")
    /\ ReadErr

\* a read of a stream that has been closed on this side fails
ReadOnClosed ==
    /\ pc["read"] \in {"r_head", "r_body"}
    /\ ~Open("read")
    /\ ReadErr

\* a send that loses the body
PushedQueueDrop(q, b) == q

\* c.readq <- body
PushedQueue(q, b) == Append(q, b)

\* select { case c.readq <- body: }
ReadPush ==
    /\ pc["read"] = "r_push"
    /\ Len(readq) < ReadQueueLen
    /\ readq' = PushedQueue(readq, rbody)
    /\ rl' = 0
    /\ rbody' = NoBody
    /\ Goto("read", "r_head")
    /\ UNCHANGED << cfg, state, conn, cmx, cls, sclosed, lconn, dlv, writeq, ndec,
                    wrv, appv, misc >>

\* select { case <-c.closed: return } at the push
ReadPushClosed ==
    /\ pc["read"] = "r_push"
    /\ closed
    /\ rl' = 0
    /\ rbody' = NoBody
    /\ Goto("read", "r_defer")
    /\ UNCHANGED << cfg, state, conn, cmx, cls, sclosed, lconn, dlv, readq, writeq, ndec,
                    wrv, appv, misc >>

\* a triggerDialingRead that does not look at c.incoming
TdrIncomingRedial == "r_chk"

\* where triggerDialingRead goes after conn.Close()
TdrNext == IF incoming THEN "r_close" ELSE "r_chk"

\* triggerDialingRead: conn.Close(); if c.incoming { c.Close(); return }
triggerDialingRead ==
    /\ pc["read"] = "r_tdr"
    /\ sclosed' = sclosed \cup {lconn["read"]}
    /\ Goto("read", TdrNext)
    /\ UNCHANGED << cfg, state, conn, cmx, cls, lconn, dlv, qs, misc >>

\* select { case <-c.writed: return; default: } with nothing received
ReadCheckDefault ==
    /\ pc["read"] = "r_chk"
    /\ Goto("read", "r_sel")
    /\ UNCHANGED allButPc

\* select { case <-c.closed: return } in triggerDialingRead
ReadSelectClosed ==
    /\ pc["read"] = "r_sel"
    /\ closed
    /\ Goto("read", "r_dial")
    /\ UNCHANGED allButPc

\* ----------------------------------------------------------------- write
\* DialLoop: select { case <-c.closed: return }
WriteDialClosed ==
    /\ pc["write"] = "w_dial"
    /\ closed
    /\ Goto("write", "w_defer")
    /\ UNCHANGED allButPc

\* body = <-c.writeq
Dequeue ==
    /\ wbody' = Head(writeq)
    /\ writeq' = Tail(writeq)
    /\ unsent' = unsent + 1
    /\ nwrite' = (nwrite + 1) % nseq

\* WriteLoop: select { case body = <-c.writeq: }
WriteLoopRecv ==
    /\ pc["write"] = "w_loop"
    /\ writeq # << >>
    /\ Dequeue
    /\ Goto("write", "w_msg")
    /\ UNCHANGED << cfg, state, conn, cmx, cls, sclosed, lconn, dlv, readq, rdv, appv, misc >>

\* WriteLoop: select { case <-c.closed: return }
WriteLoopClosed ==
    /\ pc["write"] = "w_loop"
    /\ closed
    /\ Goto("write", "w_defer")
    /\ UNCHANGED allButPc

\* after a failed Write in writeMsg or a failed bw.Flush(): if c.isClosed()
\* return; otherwise c.triggerDialingWrite(err, conn)
WriteErr ==
    /\ Goto("write", IF closed THEN "w_defer" ELSE "w_tdw")
    /\ wbody' = NoBody
    /\ unsent' = 0
    /\ UNCHANGED << cfg, state, conn, cmx, cls, sclosed, lconn, dlv, readq, writeq, rdv, nwrite,
                    appv, misc >>

\* a write length check that also refuses a body of MaxMessageSize bytes
WriteTooLongStrict(l) == conf.MaxMessageSize > 0 /\ l >= conf.MaxMessageSize

\* if c.p.conf.MaxMessageSize > 0 && len(body) > c.p.conf.MaxMessageSize
WriteTooLong(l) == conf.MaxMessageSize > 0 /\ l > conf.MaxMessageSize

\* writeMsg: a body longer than MaxMessageSize terminates; write returns
\* with body still set
WriteMsgTooLong ==
    /\ pc["write"] = "w_msg"
    /\ WriteTooLong(wbody.len)
    /\ Goto("write", "w_defer")
    /\ UNCHANGED allButPc

\* w.Write(p): a bufio.Writer that has room takes the data; otherwise (a
\* full buffer, or no buffer) the data goes out to the stream
Buffers == wbuf < conf.WriteBufferSize

\* a successful w.Write(p).  Data that does not fit the buffer pushes out
\* what the buffer holds: at the head of a payload all earlier payloads
\* are then on the stream; an unbuffered body is on the stream itself.
Write ==
    /\ Buffers \/ Open("write")
    /\ wbuf' = IF conf.WriteBufferSize > 0 THEN (IF Buffers THEN wbuf + 1 ELSE 1) ELSE 0
    /\ unsent' = IF Buffers THEN unsent
                 ELSE IF conf.WriteBufferSize = 0 /\ pc["write"] = "w_body" THEN 0 ELSE 1

\* writeMsg: w.Write(head) succeeds
WriteHead ==
    /\ pc["write"] = "w_msg"
    /\ ~WriteTooLong(wbody.len)
    /\ Write
    /\ Goto("write", "w_body")
    /\ UNCHANGED << cfg, state, conn, cmx, cls, sclosed, lconn, dlv, readq, writeq, rdv,
                    wbody, nwrite, appv, nstreams, trig >>

\* writeMsg: w.Write(body) succeeds
WriteBody ==
    /\ pc["write"] = "w_body"
    /\ Write
    /\ wbody' = NoBody
    /\ Goto("write", "w_more")
    /\ UNCHANGED << cfg, state, conn, cmx, cls, sclosed, lconn, dlv, readq, writeq, rdv,
                    nwrite, appv, nstreams, trig >>

\* the places where the write loop writes to the stream: the two writes of
\* writeMsg when the data is not buffered, and bw.Flush() of a buffer that
\* holds data
WriteIO ==
    \/ pc["write"] = "w_msg" /\ ~WriteTooLong(wbody.len) /\ ~Buffers
    \/ pc["write"] = "w_body" /\ ~Buffers
    \/ pc["write"] = "w_flush" /\ wbuf > 0

\* a write to the open stream fails: timeout, reset by the peer
WriteFault ==
    /\ WriteIO
    /\ Open("write")
    /\ WriteErr

\* a write to a stream that has been closed on this side fails
WriteOnClosed ==
    /\ WriteIO
    /\ ~Open("write")
    /\ WriteErr

\* an inner loop that goes back to WriteLoop without flushing
AfterDrainNoFlush == "w_loop"

\* default: if bw != nil { bw.Flush() }; continue WriteLoop
AfterDrain == IF conf.WriteBufferSize > 0 THEN "w_flush" ELSE "w_loop"

\* the inner loop: select { case body = <-c.writeq: ...; default: flush;
\* continue WriteLoop }
WriteMore ==
    /\ pc["write"] = "w_more"
    /\ IF writeq # << >>
         THEN /\ Dequeue
              /\ Goto("write", "w_msg")
         ELSE /\ Goto("write", AfterDrain)
              /\ UNCHANGED << wrv, writeq >>
    /\ UNCHANGED << cfg, state, conn, cmx, cls, sclosed, lconn, dlv, readq, rdv, appv, misc >>

\* bw.Flush() succeeds
WriteFlush ==
    /\ pc["write"] = "w_flush"
    /\ wbuf = 0 \/ Open("write")
    /\ wbuf' = 0
    /\ unsent' = 0
    /\ Goto("write", "w_loop")
    /\ UNCHANGED << cfg, state, conn, cmx, cls, sclosed, lconn, dlv, readq, writeq, rdv,
                    wbody, nwrite, appv, nstreams, trig >>

\* triggerDialingWrite: conn.Close(); if c.incoming { c.Close(); return }
triggerDialingWrite ==
    /\ pc["write"] = "w_tdw"
    /\ sclosed' = sclosed \cup {lconn["write"]}
    /\ Goto("write", IF incoming THEN "w_close" ELSE "w_chk")
    /\ UNCHANGED << cfg, state, conn, cmx, cls, lconn, dlv, qs, misc >>

\* select { case <-c.readd: return; default: } with nothing received
WriteCheckDefault ==
    /\ pc["write"] = "w_chk"
    /\ Goto("write", "w_sel")
    /\ UNCHANGED allButPc

\* select { case <-c.closed: return } in triggerDialingWrite
WriteSelectClosed ==
    /\ pc["write"] = "w_sel"
    /\ closed
    /\ Goto("write", "w_dial")
    /\ UNCHANGED allButPc

\* ------------------------------------------------- the one-shots readd, writed
\* a write loop that ignores the one-shot of the read loop
WriteLoopReaddStay == "w_loop"

\* a write loop that triggers the dial itself on the one-shot of the read loop
WriteLoopReaddTrigger == "w_trig"

\* case <-c.readd: continue DialLoop
WriteLoopReaddNext == "w_dial"

\* read's case c.readd <- struct{}{} met by write's case <-c.readd in WriteLoop
WriteLoopReadd ==
    /\ pc["read"] = "r_sel"
    /\ pc["write"] = "w_loop"
    /\ ~closed
    /\ Goto2("read", "r_trig", "write", WriteLoopReaddNext)
    /\ UNCHANGED allButPc

\* read's case c.readd <- struct{}{} met by triggerDialingWrite: the first
\* select (case <-c.readd: return) or the second (case <-c.readd:)
WriteSelectReadd ==
    /\ pc["read"] = "r_sel"
    /\ pc["write"] \in {"w_chk", "w_sel"}
    /\ ~closed
    /\ Goto2("read", "r_trig", "write", "w_dial")
    /\ UNCHANGED allButPc

\* write's case c.writed <- struct{}{} met by triggerDialingRead: the first
\* select (case <-c.writed: return) or the second (case <-c.writed:)
ReadSelectWrited ==
    /\ pc["write"] = "w_sel"
    /\ pc["read"] \in {"r_chk", "r_sel"}
    /\ ~closed
    /\ Goto2("write", "w_trig", "read", "r_dial")
    /\ UNCHANGED allButPc

\* ----------------------------------------------------------- application
\* c.SendQueue() <- body
AppSend ==
    /\ pc["main"] = "done"
    /\ Len(writeq) < WriteQueueLen
    /\ \E l \in Lens : writeq' = Append(writeq, [n |-> nsend, len |-> l])
    /\ nsend' = (nsend + 1) % nseq
    /\ UNCHANGED << cfg, state, conn, cmx, cls, sclosed, pc, lconn, dlv, readq, rdv, wrv,
                    nrecv, misc >>

\* <-c.ReceiveQueue()
AppReceive ==
    /\ readq # << >>
    /\ readq' = Tail(readq)
    /\ nrecv' = (nrecv + 1) % nseq
    /\ UNCHANGED << cfg, state, conn, cmx, cls, sclosed, pc, lconn, dlv, writeq, rdv, wrv,
                    nsend, misc >>

\* ------------------------------------------------------ the pool registry
\* The registry of a Pool that accepts streams from, and dials, several
\* addresses.  A Conn is the index of its record in cns; the handoff of the
\* stream that ends acceptConnection is the "main" process above.
Addrs == 1 .. NAddrs

NoRet == [cn |-> 0, err |-> "nil"]

\* a new Pool
PoolInit ==
    /\ pconns = [a \in Addrs |-> 0]
    /\ cns = << >>
    /\ awaitAdd = 0
    /\ nacc = 0
    /\ aaddr = 0
    /\ aret = NoRet

\* a lookup that never finds the address
GotNever(a) == FALSE

\* _, got = p.conns[c.RemoteAddr().String()]
Got(a) == pconns[a] # 0

\* p.conns[address] = cn for the new Conn cn with n goroutines started
Register(a, cn, n) ==
    /\ cns' = Append(cns, cn)
    /\ pconns' = [pconns EXCEPT ![a] = Len(cns) + 1]
    /\ awaitAdd' = awaitAdd + n

\* acceptConnection(c) for the nacc-th accepted stream c, under p.cmx: an
\* address that is registered gives an error; otherwise a new incoming
\* Conn is registered, read and write are started and updateConnection
\* sets its conn and state
acceptConnection ==
    /\ Len(cns) < MaxConns
    /\ nacc < MaxAccepts
    /\ \E a \in Addrs :
         /\ nacc' = nacc + 1
         /\ aaddr' = a
         /\ IF Got(a)
              THEN /\ aret' = [cn |-> 0, err |-> "exists"]
                   /\ UNCHANGED << pconns, cns, awaitAdd >>
              ELSE /\ Register(a, [address |-> a, incoming |-> TRUE, conn |-> nacc + 1,
                                   state |-> "Connected"], 2)
                   /\ aret' = [cn |-> Len(cns) + 1, err |-> "nil"]
    /\ UNCHANGED << conv, uvars, fvars, rvars >>

\* createConnection(address): a new outgoing Conn is registered, read,
\* write and dial are started and triggerDialing sets its state
createConnection(a) ==
    /\ Register(a, [address |-> a, incoming |-> FALSE, conn |-> 0, state |-> "Dialing"], 3)
    /\ UNCHANGED << conv, uvars, fvars, rvars, nacc, aaddr, aret >>

\* Pool.Dial(address): an address that is registered fails with "already
\* exists", otherwise createConnection
Dial ==
    /\ Len(cns) < MaxConns
    /\ \E a \in Addrs : pconns[a] = 0 /\ createConnection(a)

\* the Conn registered under a is closed: closeConnection closes its
\* stream and sets the state, delete removes its address
Closing ==
    \E a \in Addrs :
        /\ pconns[a] # 0
        /\ cns' = [cns EXCEPT ![pconns[a]].state =
                                IF cns[pconns[a]].conn # 0 THEN "Closed" ELSE @]
        /\ pconns' = [pconns EXCEPT ![a] = 0]
        /\ UNCHANGED << conv, uvars, fvars, rvars, awaitAdd, nacc, aaddr, aret >>

\* ---------------------------------------------- cxoutils.RemoveRootObjects
\* The Container as RemoveRootObjects uses it: Feeds() and Heads(pk) list
\* the feeds and their heads, LastRootSeq(pk, nonce) is the greatest seq of
\* the head and fails on a head without Roots, DelRoot(pk, nonce, seq)
\* removes that Root and fails with data.ErrNotFound if there is none.
\* Heads and DelRoot can also fail for a reason of the database.
Feeds == 1 .. NFeeds
Nonces == 1 .. NHeads
Seqs == 0 .. MaxSeq

\* the Roots of a head: all from some seq up to the last
RootRanges == {lo .. hi : lo \in Seqs, hi \in Seqs} \cup {{}}

SetMax(S) == CHOOSE x \in S : \A y \in S : y <= x

\* RemoveRootObjects is not running
RootsOff ==
    /\ roots = [h \in Feeds \X Nonces |-> {}]
    /\ roots0 = roots
    /\ keepLast = 0
    /\ rpc = "off"
    /\ pk = 0
    /\ nonce = 0
    /\ goDown = 0
    /\ rerr = "nil"

\* if seq <= uint64(keepLast) { continue }
KeepsAll(seq, n) == seq <= n

\* for _, pk := range c.Feeds(): the next feed, heads, err = c.Heads(pk);
\* after the last feed RemoveRootObjects returns err
NextFeed ==
    /\ rpc = "feeds"
    /\ IF pk < NFeeds
         THEN /\ pk' = pk + 1
              /\ nonce' = 0
              /\ \E fails \in BOOLEAN :
                   /\ rerr' = IF fails THEN "db" ELSE "nil"
                   /\ rpc' = IF fails THEN "ret" ELSE "head"
         ELSE /\ rpc' = "ret"
              /\ UNCHANGED << pk, nonce, rerr >>
    /\ UNCHANGED << conv, uvars, fvars, avars, roots, roots0, keepLast, goDown >>

\* for _, nonce := range heads: the next head, seq, err =
\* c.LastRootSeq(pk, nonce), the comparison with keepLast and goDown =
\* seq - uint64(keepLast); after the last head the feed loop goes on
NextHead ==
    /\ rpc = "head"
    /\ IF nonce < NHeads
         THEN /\ nonce' = nonce + 1
              /\ LET rs == roots[<< pk, nonce' >>]
                 IN  IF rs = {}
                       THEN /\ rerr' = "LastRootSeq"
                            /\ UNCHANGED << rpc, goDown >>
                       ELSE /\ rerr' = "nil"
                            /\ IF KeepsAll(SetMax(rs), keepLast)
                                 THEN UNCHANGED << rpc, goDown >>
                                 ELSE /\ goDown' = SetMax(rs) - keepLast
                                      /\ rpc' = "down"
         ELSE /\ rpc' = "feeds"
              /\ UNCHANGED << nonce, rerr, goDown >>
    /\ UNCHANGED << conv, uvars, fvars, avars, roots, roots0, keepLast, pk >>

\* err = c.DelRoot(pk, nonce, seq) and what follows it: on
\* data.ErrNotFound continue HeadLoop, on another error return, otherwise
\* go to position next
DelRoot(seq, next) ==
    \/ /\ seq \in roots[<< pk, nonce >>]
       /\ roots' = [roots EXCEPT ![<< pk, nonce >>] = @ \ {seq}]
       /\ rerr' = "nil"
       /\ rpc' = next
    \/ /\ seq \notin roots[<< pk, nonce >>]
       /\ rerr' = "ErrNotFound"
       /\ rpc' = "head"
       /\ UNCHANGED roots
    \/ /\ rerr' = "db"
       /\ rpc' = "ret"
       /\ UNCHANGED roots

\* for ; goDown > 0; goDown-- { c.DelRoot(pk, nonce, goDown) }
DelRootDown ==
    /\ rpc = "down"
    /\ DelRoot(goDown, IF goDown > 1 THEN "down" ELSE "zero")
    /\ goDown' = IF rpc' \in {"down", "zero"} THEN goDown - 1 ELSE goDown
    /\ UNCHANGED << conv, uvars, fvars, avars, roots0, keepLast, pk, nonce >>

\* c.DelRoot(pk, nonce, 0) after the loop
DelRootZero ==
    /\ rpc = "zero"
    /\ DelRoot(0, "head")
    /\ UNCHANGED << conv, uvars, fvars, avars, roots0, keepLast, pk, nonce, goDown >>

\* ---------------------------------------------- encodeUint32 (cxds)
\* A uint32 is four bytes; a byte has ByteBase values.
Version == 2

Bytes == 0 .. ByteBase - 1
Uint32s == 0 .. ByteBase ^ 4 - 1

\* binary.BigEndian.PutUint32(b, v) on a slice of four bytes
BigEndianPutUint32(v) ==
    << (v \div ByteBase ^ 3) % ByteBase, (v \div ByteBase ^ 2) % ByteBase,
       (v \div ByteBase) % ByteBase, v % ByteBase >>

\* binary.BigEndian.Uint32(b)
BigEndianUint32(b) ==
    b[1] * ByteBase ^ 3 + b[2] * ByteBase ^ 2 + b[3] * ByteBase + b[4]

\* ub = make([]byte, 4); binary.BigEndian.PutUint32(ub, uint32(Version))
encodeUint32(u) == BigEndianPutUint32(Version)

decodeUint32(b) == BigEndianUint32(b)

\* neither function is running
CodecOff ==
    /\ uarg = 0
    /\ ub = << >>
    /\ udec = 0
    /\ upc = "off"

\* a caller passes some u
CodecCall ==
    /\ upc \in {"call", "decoded"}
    /\ upc' = "call"
    /\ uarg' \in Uint32s
    /\ ub' = << >>
    /\ udec' = 0
    /\ UNCHANGED << conv, fvars, avars, rvars >>

\* ub = encodeUint32(u)
Encode ==
    /\ upc = "call"
    /\ ub' = encodeUint32(uarg)
    /\ upc' = "encoded"
    /\ UNCHANGED << conv, fvars, avars, rvars, uarg, udec >>

\* decodeUint32(ub)
Decode ==
    /\ upc = "encoded"
    /\ udec' = decodeUint32(ub)
    /\ upc' = "decoded"
    /\ UNCHANGED << conv, fvars, avars, rvars, uarg, ub >>

\* --------------------------------------------------------- OnDialFilter
\* syscall.Errno 0x68
ECONNRESET == 104

Errnos == {ECONNRESET - 2, ECONNRESET - 1, ECONNRESET, ECONNRESET + 1, ECONNRESET + 2}

\* The errors OnDialFilter is called with.  kind: nil, io.EOF, another
\* error that is no net.Error, a net.Error that is no *net.OpError, or a
\* *net.OpError; temporary and timeout are what Temporary() and Timeout()
\* return; inner is the dynamic type of OpError.Err and, for an
\* *os.SyscallError, of its Err: "SyscallError/Errno" wraps errno.
PlainErr(k) == [kind |-> k, temporary |-> FALSE, timeout |-> FALSE, inner |-> "none", errno |-> 0]
NilErr == PlainErr("nil")
Errors ==
    {PlainErr(k) : k \in {"nil", "EOF", "other"}}
    \cup [kind : {"net"}, temporary : BOOLEAN, timeout : BOOLEAN, inner : {"none"}, errno : {0}]
    \cup [kind : {"OpError"}, temporary : BOOLEAN, timeout : BOOLEAN,
          inner : {"SyscallError/Errno", "Errno"}, errno : Errnos]
    \cup [kind : {"OpError"}, temporary : BOOLEAN, timeout : BOOLEAN,
          inner : {"SyscallError/other", "other"}, errno : {0}]

\* a filter that does not ask Temporary()
OnDialFilterNoTemporary(err) ==
    IF err.kind \in {"net", "OpError"}
      THEN IF err.kind = "OpError" /\ err.inner = "SyscallError/Errno" /\ err.errno = ECONNRESET
             THEN err ELSE NilErr
      ELSE IF err.kind = "EOF" THEN err ELSE NilErr

\* the value OnDialFilter(c, err) returns
OnDialFilterRet(err) ==
    IF err.kind \in {"net", "OpError"}
      THEN IF err.temporary
             THEN NilErr
             ELSE IF err.kind = "OpError" /\ err.inner = "SyscallError/Errno"
                       /\ err.errno = ECONNRESET
                    THEN err ELSE NilErr
      ELSE IF err.kind = "EOF" THEN err ELSE NilErr

\* the connection engine calls the filter with some error
FilterCall ==
    /\ fpc \in {"call", "ret"}
    /\ fpc' = "call"
    /\ ferr' \in Errors
    /\ freject' = NilErr
    /\ UNCHANGED << conv, uvars, avars, rvars >>

OnDialFilter ==
    /\ fpc = "call"
    /\ freject' = OnDialFilterRet(ferr)
    /\ fpc' = "ret"
    /\ UNCHANGED << conv, uvars, ferr, avars, rvars >>

FilterInit ==
    /\ InitConn
    /\ PoolInit
    /\ CodecOff
    /\ RootsOff
    /\ incoming
    /\ nseq = 1
    /\ fpc = "call"
    /\ ferr \in Errors
    /\ freject = NilErr

FilterNext == FilterCall \/ OnDialFilter

FilterSpec == FilterInit /\ [][FilterNext]_vars

\* ------------------------------------------------------------------ Init
\* one connection; OnDialFilter is not running
Init ==
    /\ InitConn
    /\ PoolInit
    /\ CodecOff
    /\ RootsOff
    /\ nseq = 1
    /\ fpc = "off"
    /\ ferr = NilErr
    /\ freject = NilErr

\* ------------------------------------------------------------------ Next
Next ==
    \/ \E p \in Procs : CloseStart(p)
    \/ closeConnection
    \/ PoolDelete
    \/ OnCloseConnection
    \/ \E p \in Procs : CloseReturn(p)
    \/ AppClose
    \/ \E p \in {"main", "read", "write"} : triggerDialing(p)
    \/ \E p \in {"main", "read", "write"} : DialTrigger(p)
    \/ \E p \in {"main", "read", "write"} : triggerDialingClosed(p)
    \/ DialTriggerClosed
    \/ DialLimit
    \/ DialOnDial
    \/ DialingOk
    \/ DialingFail
    \/ DialSleep
    \/ DialSleepClosed
    \/ \E p \in {"main", "dial"} : updateConnection(p)
    \/ \E p \in {"main", "dial"} : HandRead(p)
    \/ \E p \in {"main", "dial"} : HandWrite(p)
    \/ \E p \in {"main", "dial"} : HandClosed(p)
    \/ ReadDialClosed
    \/ ReadHead
    \/ ReadBody
    \/ ReadFault
    \/ ReadOnClosed
    \/ ReadPush
    \/ ReadPushClosed
    \/ triggerDialingRead
    \/ ReadCheckDefault
    \/ ReadSelectClosed
    \/ WriteDialClosed
    \/ WriteLoopRecv
    \/ WriteLoopClosed
    \/ WriteMsgTooLong
    \/ WriteHead
    \/ WriteBody
    \/ WriteFault
    \/ WriteOnClosed
    \/ WriteMore
    \/ WriteFlush
    \/ triggerDialingWrite
    \/ WriteCheckDefault
    \/ WriteSelectClosed
    \/ WriteLoopReadd
    \/ WriteSelectReadd
    \/ ReadSelectWrited
    \/ AppSend
    \/ AppReceive

Spec == Init /\ [][Next]_vars

\* the same connection with the contents of the payloads told apart
DataInit ==
    /\ InitConn
    /\ PoolInit
    /\ CodecOff
    /\ RootsOff
    /\ nseq = NSeq
    /\ fpc = "off"
    /\ ferr = NilErr
    /\ freject = NilErr

DataSpec == DataInit /\ [][Next]_vars

\* the pool registry alone
AcceptInit ==
    /\ InitConn
    /\ PoolInit
    /\ CodecOff
    /\ RootsOff
    /\ incoming
    /\ nseq = 1
    /\ fpc = "off"
    /\ ferr = NilErr
    /\ freject = NilErr

AcceptNext == acceptConnection \/ Dial \/ Closing

AcceptSpec == AcceptInit /\ [][AcceptNext]_vars

\* RemoveRootObjects(c, keepLast) called on some Container
RootsInit ==
    /\ InitConn
    /\ PoolInit
    /\ CodecOff
    /\ incoming
    /\ nseq = 1
    /\ fpc = "off"
    /\ ferr = NilErr
    /\ freject = NilErr
    /\ roots \in [Feeds \X Nonces -> RootRanges]
    /\ roots0 = roots
    /\ keepLast \in 0 .. MaxKeep
    /\ rpc = "feeds"
    /\ pk = 0
    /\ nonce = 0
    /\ goDown = 0
    /\ rerr = "nil"

RootsNext == NextFeed \/ NextHead \/ DelRootDown \/ DelRootZero

RootsSpec == RootsInit /\ [][RootsNext]_vars

\* encodeUint32 and decodeUint32 called on some u
CodecInit ==
    /\ InitConn
    /\ PoolInit
    /\ RootsOff
    /\ incoming
    /\ nseq = 1
    /\ fpc = "off"
    /\ ferr = NilErr
    /\ freject = NilErr
    /\ uarg \in Uint32s
    /\ ub = << >>
    /\ udec = 0
    /\ upc = "call"

CodecNext == CodecCall \/ Encode \/ Decode

CodecSpec == CodecInit /\ [][CodecNext]_vars

\* -------------------------------------------------------------- fairness
\* The steps of each goroutine that the Go scheduler runs whenever they are
\* possible.  Stream I/O on an open stream (ReadHead, ReadBody, ReadFault,
\* and WriteHead, WriteBody, WriteFlush, WriteFault when they reach the
\* stream) depends on the peer and may block for ever, and the application
\* is free not to act; these have no fairness.  The send on c.readq is a
\* step of the read loop whenever the queue has room.
Step(p) ==
    \/ CloseStart(p)
    \/ CloseReturn(p)
    \/ /\ p \in {"main", "read", "write"}
       /\ triggerDialing(p) \/ DialTrigger(p) \/ triggerDialingClosed(p)
    \/ /\ p \in {"main", "dial"}
       /\ updateConnection(p) \/ HandRead(p) \/ HandWrite(p) \/ HandClosed(p)
    \/ /\ p = "dial"
       /\ \/ \E q \in {"main", "read", "write"} : DialTrigger(q)
          \/ DialTriggerClosed \/ DialLimit \/ DialOnDial \/ DialingOk \/ DialingFail
          \/ DialSleep \/ DialSleepClosed
    \/ /\ p = "read"
       /\ \/ \E q \in {"main", "dial"} : HandRead(q)
          \/ ReadDialClosed \/ ReadOnClosed \/ ReadPush \/ ReadPushClosed
          \/ triggerDialingRead
          \/ ReadCheckDefault \/ ReadSelectClosed
          \/ WriteLoopReadd \/ WriteSelectReadd \/ ReadSelectWrited
    \/ /\ p = "write"
       /\ \/ \E q \in {"main", "dial"} : HandWrite(q)
          \/ WriteDialClosed \/ WriteLoopRecv \/ WriteLoopClosed \/ WriteMsgTooLong
          \/ WriteOnClosed \/ WriteMore \/ triggerDialingWrite
          \/ (Buffers /\ (WriteHead \/ WriteBody)) \/ (wbuf = 0 /\ WriteFlush)
          \/ WriteCheckDefault \/ WriteSelectClosed
          \/ WriteLoopReadd \/ WriteSelectReadd \/ ReadSelectWrited

\* the function run by closeo, in whichever goroutine runs it
CloseSteps == closeConnection \/ PoolDelete \/ OnCloseConnection

\* A select chooses among its ready cases pseudo-randomly, so a case that
\* is ready again and again is chosen eventually: the closed case of the
\* backoff sleep.
FairSpec ==
    /\ Spec
    /\ \A p \in {"main", "dial", "read", "write"} : WF_vars(Step(p))
    /\ WF_vars(CloseSteps)
    /\ SF_vars(DialSleepClosed)

\* ------------------------------------------------------------ the claims
\* the read / write loop holds a stream: it is neither waiting for a
\* handoff nor finished
ReadAttached ==
    pc["read"] \in {"r_head", "r_body", "r_push", "r_tdr", "r_chk", "r_sel", "r_trig", "r_send", "r_close"}

WriteAttached ==
    pc["write"] \in {"w_loop", "w_msg", "w_body", "w_more", "w_flush", "w_tdw", "w_chk", "w_sel", "w_trig", "w_send", "w_close"}

Exited(p) == pc[p] \in {"done", "none"}

\* C1: once the state is Closed it stays Closed: no step moves the state
\* out of Closed.
C1_ClosedIsTerminal == [][state = "Closed" => state' = "Closed"]_vars

\* C2: after Close() has completed, the state is Closed, whatever state
\* the connection was closed from.
C2_ClosedAfterClose == closeo = "done" => state = "Closed"

\* C3: however often and by whomever Close() is called, c.closed is closed
\* once, closeConnection and the registry removal run once and
\* OnCloseConnection is invoked once.
C3_CloseOnce ==
    /\ nClosed <= 1 /\ nCloseConnection <= 1 /\ nDelete <= 1 /\ nOnClose <= 1
    /\ closeo = "done" =>
         nClosed = 1 /\ nCloseConnection = 1 /\ nDelete = 1 /\ nOnClose = 1

\* the deferred calls of dial, read and write have returned and the
\* application calls Close() once more
C3_Witness ==
    /\ closeo = "done" /\ nOnClose = 1
    /\ pc["app"] = "a_close"
    /\ pc["read"] = "done" /\ pc["write"] = "done" /\ pc["dial"] = "done"

\* C4: when a call of c.Close() returns, the registry does not contain the
\* address and the read and write goroutines have exited.
C4_CloseWaits ==
    [][(\E p \in Procs : pc[p] \in ClosePC /\ pc'[p] \notin ClosePC)
         => (ADDR \notin conns' /\ pc'["read"] = "done" /\ pc'["write"] = "done")]_vars

\* C5: for every stream handed off, the read and the write loop together
\* call triggerDialing (the send on dialtr) at most once.
C5_OneTriggerPerStream == \A s \in Streams : trig[s] <= 1

\* on the second stream the write loop drives the redial while the read
\* loop, which failed too, is back waiting for the handoff
C5_Witness ==
    /\ ~incoming /\ trig[1] = 1 /\ trig[2] = 1
    /\ lconn["read"] = 2 /\ lconn["write"] = 2
    /\ pc["write"] = "w_send" /\ pc["read"] = "r_dial"

\* C6: when the read and the write loop both hold a stream, it is the same
\* stream and it is c.conn.
C6_SameStream ==
    (ReadAttached /\ WriteAttached) =>
        (lconn["read"] = lconn["write"] /\ conn = lconn["read"])

\* after a redial both loops work on the second stream
C6_Witness ==
    /\ ~incoming /\ ~closed
    /\ pc["read"] = "r_head" /\ pc["write"] = "w_loop"
    /\ lconn["read"] = 2 /\ lconn["write"] = 2

\* C7: every stream whose handoff starts is eventually received by both
\* the read and the write loop, or c.closed is closed.
C7_HandoffCompletes ==
    \A s \in Streams :
        (\E p \in {"main", "dial"} : pc[p] \in HandPC /\ lconn[p] = s)
            ~> ((lconn["read"] = s /\ lconn["write"] = s) \/ closed)

\* the handoff of the second stream is complete and the connection open
C7_Witness ==
    /\ ~closed /\ pc["dial"] = "d_trig"
    /\ lconn["dial"] = 2 /\ lconn["read"] = 2 /\ lconn["write"] = 2

\* C8: after Close() is called, the dial, read and write goroutines all
\* exit eventually.
C8_ActivitiesExit ==
    closed ~> (Exited("dial") /\ Exited("read") /\ Exited("write"))

\* an outgoing connection that was closed and whose three goroutines exited
C8_Witness ==
    /\ ~incoming /\ closed
    /\ pc["dial"] = "done" /\ pc["read"] = "done" /\ pc["write"] = "done"

\* C9: an incoming connection never redials: no triggerDialing, no dial,
\* never Dialing; a loop that comes back from an I/O fault finds it closed.
C9_IncomingNeverRedials ==
    incoming =>
        /\ state # "Dialing"
        /\ pc["dial"] = "none" /\ nstreams = 1
        /\ \A s \in Streams : trig[s] = 0
        /\ pc["read"] \notin {"r_chk", "r_sel", "r_trig", "r_send"}
        /\ pc["write"] \notin {"w_chk", "w_sel", "w_trig", "w_send"}
        /\ (pc["read"] = "r_dial" /\ lconn["read"] # 0) => closed
        /\ (pc["write"] = "w_dial" /\ lconn["write"] # 0) => closed

\* the read loop of an incoming connection is back from a fault, the write
\* loop still works
C9_Witness ==
    /\ incoming /\ closed
    /\ pc["read"] = "r_dial" /\ lconn["read"] = 1
    /\ pc["write"] = "w_loop"

\* C10: on an outgoing connection the state becomes Connected only from
\* Dialing, c.conn is not replaced while the state stays Connected, and a
\* fault does not close the connection.
C10_ConnectedOnlyFromDialing ==
    [][~incoming =>
         /\ (state' = "Connected" /\ state # "Connected") => state = "Dialing"
         /\ (state = "Connected" /\ state' = "Connected") => conn' = conn
         /\ pc'["read"] # "r_close" /\ pc'["write"] # "w_close"]_vars

\* C11: a decoded length prefix that is negative as an int, or greater
\* than a positive MaxMessageSize, makes read return: nothing is pushed, no
\* redial is triggered and the connection is closed, incoming or outgoing;
\* every other length, MaxMessageSize itself included, is read and pushed.
C11_OversizeFrameFatal ==
    /\ [][(pc["read"] = "r_head" /\ rl' # 0) =>
            IF rl' < 0 \/ (conf.MaxMessageSize > 0 /\ rl' > conf.MaxMessageSize)
              THEN /\ pc'["read"] = "r_defer"
                   /\ readq' = readq /\ trig' = trig /\ state' = state
              ELSE pc'["read"] = "r_body"]_vars
    /\ [](/\ \A i \in 1 .. Len(readq) :
               /\ readq[i].len >= 0
               /\ (conf.MaxMessageSize > 0 => readq[i].len <= conf.MaxMessageSize)
           /\ (pc["read"] \in {"r_tdr", "r_chk", "r_sel", "r_trig", "r_send", "r_dial"}
                 => rl = 0)
           /\ (pc["read"] = "done" => closed))

\* the read loop of an outgoing connection returned on a frame one byte
\* longer than MaxMessageSize, and the connection is closed
C11_Witness ==
    /\ ~incoming /\ conf.MaxMessageSize > 0 /\ rl = conf.MaxMessageSize + 1
    /\ pc["read"] = "done" /\ closeo = "done"

\* C12: a dequeued payload longer than a positive MaxMessageSize makes
\* write return: nothing of it is written or buffered, no redial is
\* triggered and the connection is closed; a payload of MaxMessageSize
\* bytes goes on to be written.
C12_OversizePayloadFatal ==
    /\ [][(pc["write"] = "w_msg" /\ pc'["write"] # "w_msg") =>
            IF conf.MaxMessageSize > 0 /\ wbody.len > conf.MaxMessageSize
              THEN /\ pc'["write"] = "w_defer"
                   /\ wbuf' = wbuf /\ trig' = trig /\ sclosed' = sclosed
                   /\ state' = state
              ELSE \/ pc'["write"] = "w_body"
                   \/ pc'["write"] = "w_tdw" /\ ~closed
                   \/ pc'["write"] = "w_defer" /\ closed]_vars
    /\ [](/\ (pc["write"] = "w_body" =>
                 ~(conf.MaxMessageSize > 0 /\ wbody.len > conf.MaxMessageSize))
           /\ (pc["write"] = "done" => closed))

\* the write loop of an outgoing connection returned on a payload one byte
\* longer than MaxMessageSize, and the connection is closed
C12_Witness ==
    /\ ~incoming /\ conf.MaxMessageSize > 0 /\ wbody.len = conf.MaxMessageSize + 1
    /\ pc["write"] = "done" /\ closeo = "done"

\* C13: with DialsLimit = N > 0 at most N calls of c.dialing() are made in
\* the life of the connection, and dial returns on the limit only when N
\* calls were made; with DialsLimit = 0 dial never returns on the limit.
C13_DialsLimit ==
    /\ [](conf.DialsLimit > 0 => ndials <= conf.DialsLimit)
    /\ [][(pc["dial"] = "d_lim" /\ pc'["dial"] = "d_defer") =>
            (conf.DialsLimit > 0 /\ ndials = conf.DialsLimit)]_vars

\* with DialsLimit = 2 dial returned on the limit after two calls, the
\* connection not being closed by anyone else
C13_Witness ==
    /\ conf.DialsLimit = 2 /\ ndials = 2 /\ diallm = 0
    /\ pc["dial"] = "d_defer" /\ ~closed

\* C14: every delay slept between failed dials is at most
\* MaxRedialTimeout, and each failure doubles the delay (starting from the
\* default when it is zero) up to that cap.
C14_BackoffCapped ==
    /\ [](pc["dial"] = "d_sleep" => tm <= conf.MaxRedialTimeout)
    /\ [][(pc["dial"] = "d_dialing" /\ derr' = "dial") =>
            LET d == IF tm = 0 THEN DefaultRedialTimeout ELSE 2 * tm
            IN  tm' = IF d > conf.MaxRedialTimeout THEN conf.MaxRedialTimeout ELSE d]_vars

\* C15 as stated: with RedialTimeout = 0 the first failed dial of a cycle
\* (the timeout is still zero) is followed by a sleep of the default 100 ms,
\* whatever MaxRedialTimeout is.
C15_FirstDelayDefault ==
    [][(pc["dial"] = "d_dialing" /\ derr' = "dial" /\ conf.RedialTimeout = 0 /\ tm = 0) =>
         (pc'["dial"] = "d_sleep" /\ tm' = DefaultRedialTimeout)]_vars

\* C15 amended: with RedialTimeout = 0 the delay after the first failed
\* dial of a cycle is the smaller of 100 ms and MaxRedialTimeout, and with
\* MaxRedialTimeout = 0 dial does not sleep at all.
C15_FirstDelayCapped ==
    [][(pc["dial"] = "d_dialing" /\ derr' = "dial" /\ conf.RedialTimeout = 0 /\ tm = 0) =>
         /\ tm' = IF DefaultRedialTimeout > conf.MaxRedialTimeout
                    THEN conf.MaxRedialTimeout ELSE DefaultRedialTimeout
         /\ pc'["dial"] = "d_sleep" <=> conf.MaxRedialTimeout > 0]_vars

\* dial sleeps after its first failure with a MaxRedialTimeout below the
\* default
C15_Witness ==
    /\ conf.RedialTimeout = 0 /\ conf.MaxRedialTimeout = DefaultRedialTimeout \div 2
    /\ pc["dial"] = "d_sleep" /\ ndials = 1 /\ tm = conf.MaxRedialTimeout

\* the error that makes dial attempt now: nil before the first attempt, the
\* failure of the preceding attempt, or the I/O error of the stream that the
\* preceding attempt obtained
DialCause ==
    IF ndials = 0 THEN "nil" ELSE IF lconn["dial"] = 0 THEN "dial" ELSE "io"

\* C16: with OnDial configured every call of c.dialing() is preceded by a
\* call of OnDial with the error that caused the attempt; when OnDial
\* returns an error no further call of c.dialing() is made and the
\* connection is closed; without OnDial the attempt follows the limit check
\* directly.
C16_OnDialBeforeEveryDial ==
    /\ [][(pc'["dial"] = "d_dialing" /\ pc["dial"] # "d_dialing") =>
            IF conf.OnDial
              THEN pc["dial"] = "d_ondial" /\ derr = DialCause /\ derr' = "nil"
              ELSE pc["dial"] = "d_lim"]_vars
    /\ [][(pc["dial"] = "d_ondial" /\ pc'["dial"] # "d_ondial") =>
            /\ conf.OnDial /\ derr = DialCause
            /\ derr' = "policy" <=> pc'["dial"] = "d_defer"]_vars
    /\ [][derr = "policy" => (derr' = "policy" /\ ndials' = ndials)]_vars
    /\ [](/\ (derr = "policy" => pc["dial"] \in {"d_defer", "done"})
           /\ (pc["dial"] = "done" => closed))

\* OnDial refused the redial that an I/O error on the first stream had
\* triggered, and the connection is closed
C16_Witness ==
    /\ conf.OnDial /\ derr = "policy" /\ ndials = 1 /\ lconn["dial"] = 1
    /\ trig[1] = 1 /\ pc["dial"] = "done" /\ closeo = "done"

\* C17: OnDialFilter returns its argument exactly when that is io.EOF or a
\* non-temporary *net.OpError whose Err is an *os.SyscallError wrapping
\* errno 0x68; for a temporary net.Error, for nil and for every other error
\* it returns nil.
C17_OnDialFilter ==
    fpc = "ret" =>
        LET reset == /\ ferr.kind = "OpError" /\ ~ferr.temporary
                     /\ ferr.inner = "SyscallError/Errno" /\ ferr.errno = ECONNRESET
        IN  /\ freject # NilErr <=> (ferr.kind = "EOF" \/ reset)
            /\ freject # NilErr => freject = ferr
            /\ (ferr.kind = "nil" \/ ferr.temporary) => freject = NilErr

\* the filter rejected a connection reset by peer
C17_Witness ==
    /\ fpc = "ret" /\ freject = ferr
    /\ ferr.kind = "OpError" /\ ferr.errno = ECONNRESET /\ ~ferr.temporary

\* C18: on an outgoing connection payloads leave writeq in the order they
\* were sent, only into the write loop, and when a write or flush fails
\* with the connection open at most the payload being written is not
\* wholly on the stream.
C18_FifoOneLost ==
    /\ [][(~incoming /\ Len(writeq') < Len(writeq)) =>
            /\ writeq' = Tail(writeq) /\ wbody' = Head(writeq)
            /\ Head(writeq).n = nwrite /\ pc'["write"] = "w_msg"]_vars
    /\ [][(~incoming /\ pc["write"] \in {"w_msg", "w_body", "w_flush"}
              /\ pc'["write"] = "w_tdw") =>
            unsent <= 1]_vars

C20_StreamIffConnected == (conn # 0) <=> (state = "Connected")

\* the Conn is in the registry
Registered(i) == pconns[cns[i].address] = i

\* C21: accepting a stream whose remote address is registered returns an
\* error, starts no goroutine and changes neither the registry nor any
\* Conn; otherwise one new incoming Conn is created, registered under that
\* address and returned, the rest being unchanged.  No Conn that was
\* registered loses its entry but by its removal, so each address has at
\* most one Conn that was not removed.
C21_AcceptRejectsDuplicate ==
    /\ [][nacc' # nacc =>
            IF pconns[aaddr'] # 0
              THEN /\ aret'.err = "exists" /\ aret'.cn = 0
                   /\ pconns' = pconns /\ cns' = cns /\ awaitAdd' = awaitAdd
              ELSE /\ aret'.err = "nil" /\ aret'.cn = Len(cns) + 1
                   /\ cns' = Append(cns, cns'[aret'.cn])
                   /\ cns'[aret'.cn].address = aaddr' /\ cns'[aret'.cn].incoming
                   /\ pconns' = [pconns EXCEPT ![aaddr'] = aret'.cn]
                   /\ awaitAdd' = awaitAdd + 2]_vars
    /\ [][\A i \in 1 .. Len(cns) :
            (Registered(i) /\ ~Registered(i)') => pconns'[cns[i].address] = 0]_vars
    /\ [](\A a \in Addrs : pconns[a] # 0 =>
            (pconns[a] <= Len(cns) /\ cns[pconns[a]].address = a))

\* a stream is refused because its address is registered by an incoming
\* Conn, which took the place of a Conn that was removed
C21_Witness ==
    /\ aret.err = "exists" /\ pconns[aaddr] # 0
    /\ cns[pconns[aaddr]].incoming
    /\ \E i \in 1 .. Len(cns) : cns[i].address = aaddr /\ ~Registered(i)

\* C22: after RemoveRootObjects returned nil, a head that held the Roots
\* 0 .. last holds the keepLast Roots of greatest seq, all of them if it
\* held keepLast or fewer: at most keepLast remain.
C22_KeepsLastN ==
    (rpc = "ret" /\ rerr = "nil") =>
        \A h \in Feeds \X Nonces :
            (roots0[h] # {} /\ 0 \in roots0[h]) =>
                /\ Cardinality(roots[h]) <= keepLast
                /\ roots[h] = {s \in roots0[h] : s > SetMax(roots0[h]) - keepLast}

\* dial is in triggerReadWrite
DialHandoff == pc["dial"] \in {"d_upd", "d_hand", "d_hand_r", "d_hand_w"}

\* C23: after a successful dial, dial stays in triggerReadWrite, without
\* a further call of c.dialing(), until the read and the write loop both
\* received the new stream or c.closed is closed; after the first of them
\* received it, dial offers the same stream to the other only.
C23_HandoffBeforeTrigger ==
    /\ [][DialHandoff =>
            /\ DialHandoff' \/ pc'["dial"] = "d_trig"
            /\ ndials' = ndials /\ lconn'["dial"] = lconn["dial"]
            /\ (pc'["dial"] = "d_trig" =>
                  \/ closed
                  \/ lconn'["read"] = lconn["dial"] /\ lconn'["write"] = lconn["dial"])]_vars
    /\ [][(pc["dial"] = "d_hand" /\ pc'["dial"] # "d_hand" /\ ~closed) =>
            \/ /\ pc'["dial"] = "d_hand_w" /\ lconn'["read"] = lconn["dial"]
               /\ pc["read"] = "r_dial" /\ pc'["read"] = "r_head"
            \/ /\ pc'["dial"] = "d_hand_r" /\ lconn'["write"] = lconn["dial"]
               /\ pc["write"] = "w_dial" /\ pc'["write"] = "w_loop"]_vars
    /\ [](/\ (pc["dial"] = "d_hand_w" =>
                (lconn["read"] = lconn["dial"] /\ lconn["write"] # lconn["dial"]))
           /\ (pc["dial"] = "d_hand_r" =>
                (lconn["write"] = lconn["dial"] /\ lconn["read"] # lconn["dial"])))

\* the write loop received the second stream first and dial offers it to
\* the read loop, which still has the first
C23_Witness ==
    /\ ~closed /\ pc["dial"] = "d_hand_r" /\ lconn["dial"] = 2
    /\ lconn["write"] = 2 /\ lconn["read"] = 1 /\ pc["read"] = "r_dial"

\* C24: when the write loop waits in the select of WriteLoop, and when it
\* leaves that select on the one-shot of the read loop, the bufio.Writer
\* holds nothing and every payload taken from writeq is wholly on the
\* stream; a buffer that held data is empty at that select only after a
\* successful Flush on the open stream.
C24_FlushedBeforeBlocking ==
    /\ [](pc["write"] = "w_loop" => (wbuf = 0 /\ unsent = 0))
    /\ [][(pc["write"] = "w_loop" /\ pc'["write"] = "w_dial") =>
            (pc["read"] = "r_sel" /\ wbuf = 0 /\ unsent = 0 /\ wbuf' = 0)]_vars
    /\ [][(wbuf > 0 /\ pc["write"] # "w_dial" /\ pc'["write"] = "w_loop") =>
            (pc["write"] = "w_flush" /\ Open("write"))]_vars

\* the write loop is back at the select after it wrote a payload to the
\* buffer and flushed it to the first stream
C24_Witness ==
    /\ nseq = NSeq /\ conf.WriteBufferSize > 0 /\ ~closed
    /\ pc["write"] = "w_loop" /\ lconn["write"] = 1 /\ Open("write")
    /\ nwrite = 1 /\ wbuf = 0

\* C25: when OnCloseConnection is called c.closed is closed, c.conn, if
\* there is one, has been closed, and the address is not in the registry.
C25_OnCloseAfterRelease ==
    [][nOnClose' # nOnClose =>
         /\ closed
         /\ conn # 0 => conn \in sclosed
         /\ ADDR \notin conns]_vars

\* C26 as stated: with RedialTimeout > 0 the first failed dial after a
\* trigger (the timeout is still RedialTimeout) is followed by a sleep of
\* RedialTimeout.
C26_FirstDelayInitial ==
    [][(pc["dial"] = "d_dialing" /\ derr' = "dial"
          /\ conf.RedialTimeout > 0 /\ tm = conf.RedialTimeout) =>
         (pc'["dial"] = "d_sleep" /\ tm' = conf.RedialTimeout)]_vars

\* C26 amended: with RedialTimeout > 0 the first failed dial after a
\* trigger is followed by a sleep of twice RedialTimeout, capped at
\* MaxRedialTimeout, when MaxRedialTimeout > RedialTimeout, and of
\* RedialTimeout otherwise: the doubling applies from the first failure.
C26_FirstDelayDoubled ==
    [][(pc["dial"] = "d_dialing" /\ derr' = "dial"
          /\ conf.RedialTimeout > 0 /\ tm = conf.RedialTimeout) =>
         /\ pc'["dial"] = "d_sleep"
         /\ tm' = IF conf.MaxRedialTimeout > conf.RedialTimeout
                    THEN (IF 2 * conf.RedialTimeout > conf.MaxRedialTimeout
                            THEN conf.MaxRedialTimeout ELSE 2 * conf.RedialTimeout)
                    ELSE conf.RedialTimeout]_vars

\* dial sleeps twice RedialTimeout after the first failure
C26_Witness ==
    /\ conf.RedialTimeout > 0 /\ conf.MaxRedialTimeout > 2 * conf.RedialTimeout
    /\ pc["dial"] = "d_sleep" /\ ndials = 1 /\ tm = 2 * conf.RedialTimeout

\* C27: every trigger that dial receives sets the timeout to
\* RedialTimeout, whatever it had grown to; within the cycle the timeout
\* changes only at a failed dial and then to a value that depends on its
\* value in this cycle and on the configuration only.
C27_BackoffRestarts ==
    /\ [][(pc["dial"] = "d_trig" /\ pc'["dial"] = "d_lim") =>
            tm' = conf.RedialTimeout]_vars
    /\ [][(pc["dial"] # "d_trig" /\ tm' # tm) =>
            /\ pc["dial"] = "d_dialing" /\ derr' = "dial"
            /\ conf.MaxRedialTimeout > tm
            /\ LET d == IF tm = 0 THEN DefaultRedialTimeout ELSE 2 * tm
               IN  tm' = IF d > conf.MaxRedialTimeout THEN conf.MaxRedialTimeout ELSE d]_vars

\* the second trigger set the timeout back to a positive RedialTimeout
\* after a failed dial had grown it and the next dial had succeeded
C27_Witness ==
    /\ conf.RedialTimeout > 0 /\ conf.MaxRedialTimeout > conf.RedialTimeout
    /\ pc["dial"] = "d_lim" /\ tm = conf.RedialTimeout
    /\ ndials = 2 /\ nstreams = 1 /\ lconn["dial"] = 1 /\ derr = "io"

\* C28: when Close() has completed and dial, read and write have exited,
\* every stream the connection obtained has been closed.
C28_NoStreamLeak ==
    (closeo = "done" /\ Exited("dial") /\ Exited("read") /\ Exited("write")) =>
        \A s \in 1 .. nstreams : s \in sclosed

\* c.cmx is held, or a goroutine waits for it in triggerDialing,
\* updateConnection or closeConnection
MutexBusy ==
    \/ cmx # "free"
    \/ \E p \in {"main", "dial", "read", "write"} : pc[p] \in TrigPC \cup UpdPC
    \/ cstep = "closeConnection"

\* C29: triggerDialing holds c.cmx while it sends on c.dialtr, and whenever
\* createConnection, read or write is inside that send, dial is at its
\* dialtr receive or c.closed is closed; so the mutex is always released
\* again and its waiters in triggerDialing, updateConnection and
\* closeConnection always get it, and some step is enabled in every
\* reachable state.
C29_SendMeetsReceive ==
    /\ [](\A p \in {"main", "read", "write"} :
            (pc[p] \in SendPC) => (cmx = p /\ (pc["dial"] = "d_trig" \/ closed)))
    /\ (MutexBusy ~> ~MutexBusy)
    /\ [](ENABLED Next)

\* the write loop sends the trigger for the second stream, holding the mutex,
\* and dial waits at its receive
C29_Witness ==
    /\ ~incoming /\ ~closed
    /\ pc["write"] = "w_send" /\ cmx = "write" /\ lconn["write"] = 2
    /\ pc["dial"] = "d_trig"

\* C30: after a write fault on an outgoing connection, whatever the
\* application does with ReceiveQueue, the redial trigger for the faulted
\* stream is eventually sent or c.closed is closed.
C30_WriteFaultRecovers ==
    \A s \in Streams :
        (~incoming /\ pc["write"] = "w_tdw" /\ lconn["write"] = s)
            ~> (trig[s] >= 1 \/ closed)

\* C31: the error RemoveRootObjects returns is never one of those it skips,
\* a failure of LastRootSeq or data.ErrNotFound of DelRoot, whichever head
\* and feed it occurred on.
C31_SkippedNeverReturned ==
    (rpc = "ret") => (rerr \notin {"LastRootSeq", "ErrNotFound"})

\* C32: decodeUint32(encodeUint32(u)) = u for every u, and encodeUint32(u)
\* is the big-endian encoding of u in four bytes.
C32_RoundTrip ==
    /\ (upc \in {"encoded", "decoded"}) =>
          (Len(ub) = 4 /\ ub = BigEndianPutUint32(uarg))
    /\ (upc = "decoded") => (udec = uarg)

====
